---- MODULE Spec2Model ----
(***************************************************************************)
(* The task service of src/main.rs: five axum handlers over one table,     *)
(* `tasks`, reached through a bounded sqlx connection pool.  Every query   *)
(* of a handler is two steps: the pool hands out a connection, then the    *)
(* statement runs on the store and the connection goes back.  Handlers of  *)
(* different requests interleave at these steps (the handlers' awaits).    *)
(***************************************************************************)
EXTENDS Integers, Sequences, FiniteSets, TLC

\* ------------------------------------------------------------- bounds
\* Values the serial column task_id hands out before inserts stop; requests
\* address these ids.
MaxId == 2
\* Connections of the pool: max_connections, scaled down so that the
\* requests in flight can exhaust the pool.
PoolSize == 1
\* Requests the server accepts before it stops accepting.
MaxRequests == 3

\* The requests that can be in flight at once.
Clients == {1, 2}
Ids == 1..MaxId
Names == {"a", "b"}
Prios == {1}

\* ------------------------------------------------------------- values
\* Option<T>: None is the empty tuple, Some(v) the one-element tuple.
None == << >>
Some(v) == <<v>>
IsSome(o) == Len(o) = 1

\* A field of a JSON request body: left out, null, or a value.
Absent == << >>
JsonNull == <<"null">>
JsonVal(v) == <<"val", v>>
JsonOptField(S) == {Absent, JsonNull} \cup {JsonVal(v) : v \in S}
\* The bodies the model sends leave a name out or give one; null is sent
\* for priority only.
JsonNameField(S) == {Absent} \cup {JsonVal(v) : v \in S}

\* serde's Deserialize for a field of type Option<T>: a missing field and
\* an explicit null both become None.
DeserializeOption(j) == IF Len(j) = 2 THEN Some(j[2]) ELSE None

\* Mutant of unwrap_or: the default always wins.
unwrap_or_takes_default(o, default) == default

\* Option::unwrap_or and Option::or.
unwrap_or(o, default) == IF IsSome(o) THEN o[1] ELSE default
or(o, other) == IF IsSome(o) THEN o ELSE other

TaskRow(task_id, name, priority) ==
    [task_id |-> task_id, name |-> name, priority |-> priority]

CreateTaskReq(body) ==
    [name |-> body.name, priority |-> DeserializeOption(body.priority)]

UpdateTaskReq(body) ==
    [name |-> DeserializeOption(body.name),
     priority |-> DeserializeOption(body.priority)]

\* The errors sqlx hands to a handler: the store failed, or no connection
\* became free within acquire_timeout.
DbError == "error returned from database"
PoolTimedOut == "pool timed out while waiting for an open connection"

\* ------------------------------------------------------------- responses
map_pg_error(pg_err) ==
    [status |-> 500, body |-> [success |-> FALSE, message |-> pg_err]]

\* Mutant of build_not_found_error: an absent row is answered like a
\* present one, with no data.
build_not_found_error_as_success(task_id) ==
    [status |-> 200, body |-> [success |-> TRUE]]

build_not_found_error(task_id) ==
    [status |-> 404, body |-> [message |-> <<"Task", task_id, "not found">>]]

map_success(status_code, data) ==
    IF data = None
    THEN [status |-> status_code, body |-> [success |-> TRUE]]
    ELSE [status |-> status_code, body |-> [success |-> TRUE, data |-> data[1]]]

\* get_tasks builds its body itself and appends a newline to it.
get_tasks_ok(rows) ==
    [status |-> 200, body |-> [success |-> TRUE, data |-> rows, newline |-> TRUE]]

update_task_ok == [status |-> 200, body |-> [success |-> TRUE]]

\* ------------------------------------------------------------- state
VARIABLES
    tasks,          \* the table: a set of TaskRow
    task_id_seq,    \* the next value of the serial column task_id
    checkedOut,     \* connections of the pool now held by requests
    pc,             \* per request slot: where its handler stands
    req,            \* per request slot: the request being served
    original_task,  \* update_task's local: the row its read returned
    result,         \* per request slot: Ok/Err of its latest query
    resp,           \* per request slot: the response produced
    held,           \* per request slot: connections it holds now
    acquired,       \* per request slot: connections its request has taken
    accepted        \* requests accepted so far

vars == <<tasks, task_id_seq, checkedOut, pc, req, original_task, result,
          resp, held, acquired, accepted>>

NoReq == [op |-> "none"]
NoResp == [status |-> 0]
NoResult == << >>
Ok == <<"ok">>
Err(e) == <<"err", e>>

\* ------------------------------------------------------------- SQL
\* SELECT * FROM tasks WHERE task_id = $1, fetch_optional: the first
\* matching row, if any.
SelectById(t, task_id) ==
    LET m == {r \in t : r.task_id = task_id}
    IN IF m = {} THEN None ELSE Some(CHOOSE r \in m : TRUE)

\* Mutant of OrderByTaskId: ORDER BY task_id DESC.
RECURSIVE OrderByTaskId_desc(_)
OrderByTaskId_desc(t) ==
    IF t = {} THEN << >>
    ELSE LET first == CHOOSE r \in t : \A x \in t : r.task_id >= x.task_id
         IN <<first>> \o OrderByTaskId_desc(t \ {first})

\* SELECT * FROM tasks ORDER BY task_id, fetch_all.
RECURSIVE OrderByTaskId(_)
OrderByTaskId(t) ==
    IF t = {} THEN << >>
    ELSE LET first == CHOOSE r \in t : \A s \in t : r.task_id <= s.task_id
         IN <<first>> \o OrderByTaskId(t \ {first})

SelectAll(t) == OrderByTaskId(t)

\* Mutant of InsertRow: the priority column is left out of the INSERT.
InsertRow_without_priority(t, next_id, name, priority) ==
    t \cup {[task_id |-> next_id, name |-> name, priority |-> << >>]}

\* INSERT INTO tasks (name, priority) VALUES ($1, $2) RETURNING task_id:
\* the serial column takes the sequence's next value.
InsertRow(t, next_id, name, priority) ==
    t \cup {TaskRow(next_id, name, priority)}

\* Mutant of UpdateRows: the WHERE clause is missing.
UpdateRows_without_where(t, task_id, name, priority) ==
    {[task_id |-> r.task_id, name |-> name, priority |-> priority] : r \in t}

\* Mutant of UpdateRows: an upsert, which inserts the row when none matches.
UpdateRows_upsert(t, task_id, name, priority) ==
    {r \in t : r.task_id # task_id}
        \cup {[task_id |-> task_id, name |-> name, priority |-> priority]}

\* UPDATE tasks SET name = $2, priority = $3 WHERE task_id = $1.
UpdateRows(t, task_id, name, priority) ==
    {IF r.task_id = task_id THEN TaskRow(r.task_id, name, priority) ELSE r
        : r \in t}

\* Mutant of DeleteRows: the WHERE clause is missing.
DeleteRows_without_where(t, task_id) == {}

\* DELETE FROM tasks WHERE task_id = $1.
DeleteRows(t, task_id) == {r \in t : r.task_id # task_id}

\* Mutant of MergePriority: the request's priority is written as it came.
MergePriority_overwrites(task, original) == task.priority

\* Mutant of MergeName: unwrap_or_default, the empty name when none is
\* supplied.
MergeName_or_default(task, original) ==
    IF IsSome(task.name) THEN task.name[1] ELSE ""

\* update_task's merge of the request into the row it read.
MergeName(task, original) == unwrap_or(task.name, original.name)
MergePriority(task, original) == or(task.priority, original.priority)

\* ------------------------------------------------------------- Init
Init ==
    /\ tasks = {}
    /\ task_id_seq = 1
    /\ checkedOut = 0
    /\ pc = [p \in Clients |-> "idle"]
    /\ req = [p \in Clients |-> NoReq]
    /\ original_task = [p \in Clients |-> None]
    /\ result = [p \in Clients |-> NoResult]
    /\ resp = [p \in Clients |-> NoResp]
    /\ held = [p \in Clients |-> 0]
    /\ acquired = [p \in Clients |-> 0]
    /\ accepted = 0

\* ------------------------------------------------------------- routing
\* The router hands an accepted request to its handler, whose first await
\* is the acquisition of a connection for its first query.
Accept(p, r) ==
    /\ pc[p] = "idle"
    /\ accepted < MaxRequests
    /\ accepted' = accepted + 1
    /\ pc' = [pc EXCEPT ![p] = "acquire"]
    /\ req' = [req EXCEPT ![p] = r]
    /\ UNCHANGED <<tasks, task_id_seq, checkedOut, original_task, result, resp,
                   held, acquired>>

RouteGetTasks(p) == Accept(p, [op |-> "list"])

RouteGetTask(p) == \E i \in Ids : Accept(p, [op |-> "get", task_id |-> i])

RouteCreateTask(p) ==
    \E n \in Names, pr \in JsonOptField(Prios) :
        Accept(p, [op |-> "create", body |-> [name |-> n, priority |-> pr]])

RouteUpdateTask(p) ==
    \E i \in Ids, n \in JsonNameField(Names), pr \in JsonOptField(Prios) :
        Accept(p, [op |-> "update", task_id |-> i,
                   body |-> [name |-> n, priority |-> pr]])

RouteDeleteTask(p) == \E i \in Ids : Accept(p, [op |-> "delete", task_id |-> i])

\* ------------------------------------------------------------- pool
\* Mutant of Acquire: the pool opens a connection beyond max_connections.
Acquire_unbounded(p) ==
    /\ pc[p] \in {"acquire", "acquire2"}
    /\ checkedOut' = checkedOut + 1
    /\ held' = [held EXCEPT ![p] = @ + 1]
    /\ acquired' = [acquired EXCEPT ![p] = @ + 1]
    /\ pc' = [pc EXCEPT ![p] = IF pc[p] = "acquire" THEN "query" ELSE "write"]
    /\ UNCHANGED <<tasks, task_id_seq, req, original_task, result, resp, accepted>>

\* A query takes a free connection of the pool.
Acquire(p) ==
    /\ pc[p] \in {"acquire", "acquire2"}
    /\ checkedOut < PoolSize
    /\ checkedOut' = checkedOut + 1
    /\ held' = [held EXCEPT ![p] = @ + 1]
    /\ acquired' = [acquired EXCEPT ![p] = @ + 1]
    /\ pc' = [pc EXCEPT ![p] = IF pc[p] = "acquire" THEN "query" ELSE "write"]
    /\ UNCHANGED <<tasks, task_id_seq, req, original_task, result, resp, accepted>>

\* Mutant of Fail: the error is swallowed and the query is issued again.
Fail_retries(p, e) ==
    /\ result' = [result EXCEPT ![p] = Err(e)]
    /\ UNCHANGED <<resp, pc, original_task>>

\* The handler's `?`: an Err of a query ends the request with map_pg_error.
Fail(p, e) ==
    /\ result' = [result EXCEPT ![p] = Err(e)]
    /\ resp' = [resp EXCEPT ![p] = map_pg_error(e)]
    /\ pc' = [pc EXCEPT ![p] = "done"]
    /\ original_task' = [original_task EXCEPT ![p] = None]

\* No connection became free within acquire_timeout.
AcquireTimeout(p) ==
    /\ pc[p] \in {"acquire", "acquire2"}
    /\ checkedOut >= PoolSize
    /\ Fail(p, PoolTimedOut)
    /\ UNCHANGED <<tasks, task_id_seq, checkedOut, req, held, acquired, accepted>>

\* Mutant of QueryFails: the connection of a failed query is not returned.
QueryFails_leaks(p) ==
    /\ pc[p] \in {"query", "write"}
    /\ Fail(p, DbError)
    /\ UNCHANGED <<tasks, task_id_seq, checkedOut, req, held, acquired, accepted>>

\* The store fails the query a request is running; the connection goes back.
QueryFails(p) ==
    /\ pc[p] \in {"query", "write"}
    /\ checkedOut' = checkedOut - 1
    /\ held' = [held EXCEPT ![p] = @ - 1]
    /\ Fail(p, DbError)
    /\ UNCHANGED <<tasks, task_id_seq, req, acquired, accepted>>

\* A query came back Ok with response r (or none yet) and the handler moves
\* to `next`; the connection goes back to the pool.
Succeed(p, r, next) ==
    /\ checkedOut' = checkedOut - 1
    /\ held' = [held EXCEPT ![p] = @ - 1]
    /\ result' = [result EXCEPT ![p] = Ok]
    /\ resp' = [resp EXCEPT ![p] = r]
    /\ pc' = [pc EXCEPT ![p] = next]

\* ------------------------------------------------------------- handlers
get_tasks(p) ==
    /\ pc[p] = "query" /\ req[p].op = "list"
    /\ Succeed(p, get_tasks_ok(SelectAll(tasks)), "done")
    /\ UNCHANGED <<tasks, task_id_seq, req, original_task, acquired, accepted>>

get_task(p) ==
    /\ pc[p] = "query" /\ req[p].op = "get"
    /\ LET task == SelectById(tasks, req[p].task_id)
       IN Succeed(p, IF task = None
                     THEN build_not_found_error(req[p].task_id)
                     ELSE map_success(200, task), "done")
    /\ UNCHANGED <<tasks, task_id_seq, req, original_task, acquired, accepted>>

\* Mutant of create_task: the sequence is not advanced by the insert.
create_task_same_id(p) ==
    /\ pc[p] = "query" /\ req[p].op = "create"
    /\ task_id_seq <= MaxId
    /\ LET task == CreateTaskReq(req[p].body)
       IN tasks' = InsertRow(tasks, task_id_seq, task.name, task.priority)
    /\ task_id_seq' = task_id_seq
    /\ Succeed(p, map_success(200, Some([task_id |-> task_id_seq])), "done")
    /\ UNCHANGED <<req, original_task, acquired, accepted>>

create_task(p) ==
    /\ pc[p] = "query" /\ req[p].op = "create"
    /\ task_id_seq <= MaxId
    /\ LET task == CreateTaskReq(req[p].body)
       IN tasks' = InsertRow(tasks, task_id_seq, task.name, task.priority)
    /\ task_id_seq' = task_id_seq + 1
    /\ Succeed(p, map_success(200, Some([task_id |-> task_id_seq])), "done")
    /\ UNCHANGED <<req, original_task, acquired, accepted>>

\* Mutant of update_task_load: the read's connection is kept for the write
\* (one connection for the whole request).
update_task_load_keeps_connection(p) ==
    /\ pc[p] = "query" /\ req[p].op = "update"
    /\ LET task == SelectById(tasks, req[p].task_id)
       IN IF task = None
          THEN /\ Succeed(p, build_not_found_error(req[p].task_id), "done")
               /\ UNCHANGED original_task
          ELSE /\ result' = [result EXCEPT ![p] = Ok]
               /\ pc' = [pc EXCEPT ![p] = "write"]
               /\ original_task' = [original_task EXCEPT ![p] = task]
               /\ UNCHANGED <<checkedOut, held, resp>>
    /\ UNCHANGED <<tasks, task_id_seq, req, acquired, accepted>>

\* Mutant of update_task_load: the read's connection is still held while
\* the write waits for one of its own.
update_task_load_holds(p) ==
    /\ pc[p] = "query" /\ req[p].op = "update"
    /\ LET task == SelectById(tasks, req[p].task_id)
       IN IF task = None
          THEN /\ Succeed(p, build_not_found_error(req[p].task_id), "done")
               /\ UNCHANGED original_task
          ELSE /\ result' = [result EXCEPT ![p] = Ok]
               /\ pc' = [pc EXCEPT ![p] = "acquire2"]
               /\ original_task' = [original_task EXCEPT ![p] = task]
               /\ UNCHANGED <<checkedOut, held, resp>>
    /\ UNCHANGED <<tasks, task_id_seq, req, acquired, accepted>>

\* update_task up to its second await: the read, the 404, the merge.
update_task_load(p) ==
    /\ pc[p] = "query" /\ req[p].op = "update"
    /\ LET task == SelectById(tasks, req[p].task_id)
       IN IF task = None
          THEN /\ Succeed(p, build_not_found_error(req[p].task_id), "done")
               /\ UNCHANGED original_task
          ELSE /\ Succeed(p, NoResp, "acquire2")
               /\ original_task' = [original_task EXCEPT ![p] = task]
    /\ UNCHANGED <<tasks, task_id_seq, req, acquired, accepted>>

\* Mutant of update_task_write: the merge reads the row again at the write
\* (read and write in one transaction).
update_task_write_fresh(p) ==
    /\ pc[p] = "write" /\ req[p].op = "update"
    /\ LET task == UpdateTaskReq(req[p].body)
           fresh == SelectById(tasks, req[p].task_id)
       IN tasks' = IF fresh = None THEN tasks
                   ELSE UpdateRows(tasks, req[p].task_id,
                                   MergeName(task, fresh[1]),
                                   MergePriority(task, fresh[1]))
    /\ original_task' = [original_task EXCEPT ![p] = None]
    /\ Succeed(p, update_task_ok, "done")
    /\ UNCHANGED <<task_id_seq, req, acquired, accepted>>

\* update_task from its UPDATE statement on.
update_task_write(p) ==
    /\ pc[p] = "write" /\ req[p].op = "update"
    /\ LET task == UpdateTaskReq(req[p].body)
           original == original_task[p][1]
       IN tasks' = UpdateRows(tasks, req[p].task_id,
                              MergeName(task, original),
                              MergePriority(task, original))
    /\ original_task' = [original_task EXCEPT ![p] = None]
    /\ Succeed(p, update_task_ok, "done")
    /\ UNCHANGED <<task_id_seq, req, acquired, accepted>>

delete_task(p) ==
    /\ pc[p] = "query" /\ req[p].op = "delete"
    /\ tasks' = DeleteRows(tasks, req[p].task_id)
    /\ Succeed(p, map_success(200, None), "done")
    /\ UNCHANGED <<task_id_seq, req, original_task, acquired, accepted>>

\* The response leaves; the slot is free for the next request.
Respond(p) ==
    /\ pc[p] = "done"
    /\ pc' = [pc EXCEPT ![p] = "idle"]
    /\ req' = [req EXCEPT ![p] = NoReq]
    /\ result' = [result EXCEPT ![p] = NoResult]
    /\ resp' = [resp EXCEPT ![p] = NoResp]
    /\ acquired' = [acquired EXCEPT ![p] = 0]
    /\ UNCHANGED <<tasks, task_id_seq, checkedOut, original_task, held, accepted>>

Next ==
    \E p \in Clients :
        \/ RouteGetTasks(p)
        \/ RouteGetTask(p)
        \/ RouteCreateTask(p)
        \/ RouteUpdateTask(p)
        \/ RouteDeleteTask(p)
        \/ Acquire(p)
        \/ AcquireTimeout(p)
        \/ QueryFails(p)
        \/ get_tasks(p)
        \/ get_task(p)
        \/ create_task(p)
        \/ update_task_load(p)
        \/ update_task_write(p)
        \/ delete_task(p)
        \/ Respond(p)

Spec == Init /\ [][Next]_vars

\* The steps of the task serving slot p's request, from its first
\* acquisition to its response.
Handle(p) ==
    \/ Acquire(p)
    \/ AcquireTimeout(p)
    \/ QueryFails(p)
    \/ get_tasks(p)
    \/ get_task(p)
    \/ create_task(p)
    \/ update_task_load(p)
    \/ update_task_write(p)
    \/ delete_task(p)

\* The runtime polls every spawned request task that can make progress, the
\* store answers every query (Ok or Err) and the timer of acquire_timeout
\* fires: a request's next step is not postponed forever.
FairSpec == Spec /\ \A p \in Clients : WF_vars(Handle(p))

\* ------------------------------------------------------------- claims
\* The rows of table t with the given task_id.
RowsOf(t, task_id) == {r \in t : r.task_id = task_id}

\* What a body's optional field asks for: a value, or nothing.
Supplied(j) == j \notin {Absent, JsonNull}

\* In this step request p's query of handler `op`, issued at `at`, came
\* back Ok.
RanOk(p, op, at) ==
    /\ pc[p] = at /\ req[p].op = op
    /\ pc'[p] # at /\ result'[p] = Ok

OkBody == [success |-> TRUE]

\* C1: create returns 200 with an id no row had and stores exactly the
\* supplied name and priority (null when the priority was absent) under
\* it; a stored row leaves the table or changes only by the write of an
\* update or delete addressing its id; and get returns 200 with the row the
\* table holds.  Together: a get after a create, with no update or delete
\* of that id in between, returns the created name and priority.
C1_CreateGetRoundTrip ==
    [][\A p \in Clients :
        /\ RanOk(p, "create", "query") =>
              \E i \in Ids :
                 /\ resp'[p] = [status |-> 200,
                                body |-> [success |-> TRUE,
                                          data |-> [task_id |-> i]]]
                 /\ RowsOf(tasks, i) = {}
                 /\ tasks' = tasks \cup
                       {[task_id |-> i, name |-> req[p].body.name,
                         priority |-> IF Supplied(req[p].body.priority)
                                      THEN <<req[p].body.priority[2]>>
                                      ELSE << >>]}
        /\ RanOk(p, "get", "query") =>
              \A r \in RowsOf(tasks, req[p].task_id) :
                 resp'[p] = [status |-> 200,
                             body |-> [success |-> TRUE, data |-> r]]
        /\ \A r \in tasks : r \notin tasks' =>
              \E q \in Clients :
                 \/ RanOk(q, "update", "write") /\ req[q].task_id = r.task_id
                 \/ RanOk(q, "delete", "query") /\ req[q].task_id = r.task_id
      ]_vars

\* C1 witness: a create without priority answered with id i, and a get of
\* i answered with the created name and a null priority.
C1_Witness ==
    \E p, q \in Clients : \E i \in Ids :
        /\ pc[p] = "done" /\ req[p].op = "create"
        /\ req[p].body.priority = Absent
        /\ resp[p].status = 200 /\ resp[p].body.data.task_id = i
        /\ pc[q] = "done" /\ req[q].op = "get" /\ req[q].task_id = i
        /\ resp[q].status = 200
        /\ resp[q].body.data = [task_id |-> i, name |-> req[p].body.name,
                                priority |-> << >>]

\* C2: when the row an update addresses is, at its write, the row it read
\* (no other request wrote it in between), the write leaves under that id
\* the supplied name, else the stored one, and the supplied priority, else
\* the stored one, touches no other row, and the update answers 200
\* {success: true}.
C2_UpdateMerges ==
    [][\A p \in Clients :
        RanOk(p, "update", "write") =>
           \A old \in RowsOf(tasks, req[p].task_id) :
              <<old>> = original_task[p] =>
                 /\ resp'[p] = [status |-> 200, body |-> OkBody]
                 /\ tasks' = (tasks \ {old}) \cup
                       {[task_id |-> old.task_id,
                         name |-> IF Supplied(req[p].body.name)
                                  THEN req[p].body.name[2] ELSE old.name,
                         priority |-> IF Supplied(req[p].body.priority)
                                      THEN <<req[p].body.priority[2]>>
                                      ELSE old.priority]}
      ]_vars

\* C2 witness: an update giving only a priority answered 200, the row now
\* holding that priority.
C2_Witness ==
    \E p \in Clients :
        /\ pc[p] = "done" /\ req[p].op = "update"
        /\ req[p].body = [name |-> Absent, priority |-> JsonVal(1)]
        /\ resp[p] = [status |-> 200, body |-> OkBody]
        /\ \E r \in RowsOf(tasks, req[p].task_id) : r.priority = <<1>>

\* An update that supplies neither name nor priority.
IsNoOpUpdate(p) ==
    /\ req[p].op = "update"
    /\ ~Supplied(req[p].body.name)
    /\ ~Supplied(req[p].body.priority)

C4_DeletedStaysNotFound ==
    [][\A i \in Ids :
        /\ \A p \in Clients :
              (RanOk(p, "delete", "query") /\ req[p].task_id = i) =>
                 /\ resp'[p] = [status |-> 200, body |-> OkBody]
                 /\ RowsOf(tasks', i) = {}
        /\ (RowsOf(tasks, i) = {} /\ RowsOf(tasks', i) # {}) =>
              \E p \in Clients : RanOk(p, "create", "query")
        /\ \A p \in Clients :
              (RanOk(p, "get", "query") /\ req[p].task_id = i
                 /\ RowsOf(tasks, i) = {}) => resp'[p].status = 404
      ]_vars

\* C4 witness: a delete of an id that had been handed out has answered 200
\* and a get of the same id holds its connection, about to read.
C4_Witness ==
    \E p, q \in Clients :
        /\ pc[p] = "done" /\ req[p].op = "delete"
        /\ resp[p] = [status |-> 200, body |-> OkBody]
        /\ req[p].task_id < task_id_seq
        /\ pc[q] = "query" /\ req[q].op = "get"
        /\ req[q].task_id = req[p].task_id

\* C5: a get or update whose read finds no row with its id answers 404
\* with the not-found message of that id and ends there: the table is as it
\* was, and an update stands at its write only with a row it read.
C5_MissingIdIs404 ==
    [][\A p \in Clients :
        /\ ((RanOk(p, "get", "query") \/ RanOk(p, "update", "query"))
              /\ RowsOf(tasks, req[p].task_id) = {}) =>
              /\ resp'[p] = [status |-> 404,
                             body |-> [message |->
                                 <<"Task", req[p].task_id, "not found">>]]
              /\ pc'[p] = "done"
              /\ tasks' = tasks
        /\ pc'[p] \in {"acquire2", "write"} =>
              /\ req'[p].op = "update"
              /\ original_task'[p] # << >>
              /\ original_task'[p][1].task_id = req'[p].task_id
      ]_vars

\* C5 witness: an update of an id with no row answered 404, no row of that
\* id in the table.
C5_Witness ==
    \E p \in Clients :
        /\ pc[p] = "done" /\ req[p].op = "update"
        /\ resp[p].status = 404
        /\ RowsOf(tasks, req[p].task_id) = {}
        /\ tasks # {}

\* C6: a delete whose query succeeds answers 200 {success: true} whether
\* or not a row had its id, removes exactly the rows of that id, and no
\* delete ever answers 404.
C6_DeleteUnconditional ==
    [][\A p \in Clients :
        /\ RanOk(p, "delete", "query") =>
              /\ resp'[p] = [status |-> 200, body |-> OkBody]
              /\ RowsOf(tasks', req[p].task_id) = {}
              /\ \A r \in tasks : r.task_id # req[p].task_id => r \in tasks'
              /\ tasks' \subseteq tasks
        /\ req'[p].op = "delete" => resp'[p].status \in {0, 200, 500}
      ]_vars

\* C6 witness: a delete of an id that never had a row answered 200 with
\* another row in the table.
C6_Witness ==
    \E p \in Clients :
        /\ pc[p] = "done" /\ req[p].op = "delete"
        /\ resp[p] = [status |-> 200, body |-> OkBody]
        /\ req[p].task_id >= task_id_seq
        /\ tasks # {}

IsErr(x) == Len(x) = 2

\* C7: the step in which a query of a request fails (the store, or the
\* pool's acquire timing out) ends the request with 500, success=false and
\* the error's message, and leaves table and sequence as they were; a
\* request whose query failed issues no further query: it only hands over
\* its response.
C7_StoreFailureIs500 ==
    [][\A p \in Clients :
        /\ (IsErr(result'[p]) /\ result'[p] # result[p]) =>
              /\ resp'[p] = [status |-> 500,
                             body |-> [success |-> FALSE,
                                       message |-> result'[p][2]]]
              /\ pc'[p] = "done"
              /\ tasks' = tasks /\ task_id_seq' = task_id_seq
        /\ IsErr(result[p]) =>
              /\ pc[p] = "done"
              /\ pc'[p] \in {"done", "idle"}
      ]_vars

\* C7 witness: a query of an update of an existing row failed in the
\* store: the update answered 500 and the row is in the table.
C7_Witness ==
    \E p \in Clients :
        /\ pc[p] = "done" /\ req[p].op = "update"
        /\ result[p] = Err(DbError)
        /\ resp[p].status = 500
        /\ RowsOf(tasks, req[p].task_id) # {}
        /\ Supplied(req[p].body.name)

\* C8: the write of an update stores, for each field the request did not
\* supply, the value the request read earlier, whatever the row holds at
\* the write: a value another request wrote in between is overwritten.
C8_WriteUsesStaleRead ==
    [][\A p \in Clients :
        RanOk(p, "update", "write") =>
           \A cur \in RowsOf(tasks, req[p].task_id) :
              /\ resp'[p] = [status |-> 200, body |-> OkBody]
              /\ \E new \in RowsOf(tasks', req[p].task_id) :
                    /\ ~Supplied(req[p].body.name) =>
                          new.name = original_task[p][1].name
                    /\ ~Supplied(req[p].body.priority) =>
                          new.priority = original_task[p][1].priority
      ]_vars

\* C8 witness: two updates of one id, one giving only a name and the other
\* only a priority, both answered 200, and the row lacks one of the two
\* values.
C8_Witness ==
    \E p, q \in Clients : \E r \in tasks :
        /\ p # q
        /\ pc[p] = "done" /\ req[p].op = "update"
        /\ pc[q] = "done" /\ req[q].op = "update"
        /\ req[p].task_id = r.task_id /\ req[q].task_id = r.task_id
        /\ Supplied(req[p].body.name) /\ req[p].body.priority = Absent
        /\ req[q].body.name = Absent /\ Supplied(req[q].body.priority)
        /\ resp[p] = [status |-> 200, body |-> OkBody]
        /\ resp[q] = [status |-> 200, body |-> OkBody]
        /\ \/ r.name # req[p].body.name[2]
           \/ r.priority # <<req[q].body.priority[2]>>

\* C9: a list whose query succeeds answers 200 with a sequence that holds
\* every row of the table exactly once, in strictly increasing task_id
\* order; with an empty table the sequence is empty.
C9_ListAllAscending ==
    [][\A p \in Clients :
        RanOk(p, "list", "query") =>
           LET data == resp'[p].body.data
           IN /\ resp'[p].status = 200 /\ resp'[p].body.success
              /\ Len(data) = Cardinality(tasks)
              /\ {data[k] : k \in 1..Len(data)} = tasks
              /\ \A k \in 1..(Len(data) - 1) :
                    data[k].task_id < data[k + 1].task_id
              /\ tasks = {} => data = << >>
      ]_vars

\* C9 witness: a list answered with two rows of different names, the row
\* of task_id 1 first.
C9_Witness ==
    \E p \in Clients :
        /\ pc[p] = "done" /\ req[p].op = "list"
        /\ resp[p].status = 200
        /\ Len(resp[p].body.data) = 2
        /\ resp[p].body.data[1].task_id = 1
        /\ resp[p].body.data[2].name # resp[p].body.data[1].name

\* C10 as stated: whenever the addressed row holds a non-null priority, it
\* holds a non-null priority after the write of an update, whatever the
\* request supplies.
C10_UpdateNeverClearsPriority ==
    [][\A p \in Clients :
        RanOk(p, "update", "write") =>
           \A cur \in RowsOf(tasks, req[p].task_id) :
              cur.priority # << >> =>
                 \A new \in RowsOf(tasks', req[p].task_id) :
                    new.priority # << >>
      ]_vars

\* C10 amended: an update whose read saw a non-null priority writes a
\* non-null priority, and one that omits priority or sends null writes the
\* priority it read; a priority that another request set between the read
\* and the write is overwritten by the null that was read.
C10_UpdateKeepsPriorityRead ==
    [][\A p \in Clients :
        RanOk(p, "update", "write") =>
           \A new \in RowsOf(tasks', req[p].task_id) :
              /\ original_task[p][1].priority # << >> => new.priority # << >>
              /\ req[p].body.priority \in {Absent, JsonNull} =>
                    new.priority = original_task[p][1].priority
      ]_vars

\* C10 witness: an update sending an explicit null priority answered 200
\* and the row holds a non-null priority.
C10_Witness ==
    \E p \in Clients :
        /\ pc[p] = "done" /\ req[p].op = "update"
        /\ req[p].body.priority = JsonNull
        /\ resp[p] = [status |-> 200, body |-> OkBody]
        /\ \E r \in RowsOf(tasks, req[p].task_id) : r.priority # << >>

TaskIds(t) == {r.task_id : r \in t}

\* C12: no two rows share a task_id, before and after every step; the
\* insert of a create adds one row whose id no row had; the write of an
\* update leaves the set of ids as it was and touches only rows of the id
\* it addresses; and a row that stays in the table keeps its task_id (a
\* row of an id is replaced only by a row of the same id).
C12_TaskIdUniqueImmutable ==
    [][/\ \A r1, r2 \in tasks : r1.task_id = r2.task_id => r1 = r2
       /\ \A r1, r2 \in tasks' : r1.task_id = r2.task_id => r1 = r2
       /\ \A p \in Clients :
            /\ RanOk(p, "create", "query") =>
                  \E new \in tasks' :
                     /\ new.task_id \notin TaskIds(tasks)
                     /\ tasks' = tasks \cup {new}
            /\ RanOk(p, "update", "write") =>
                  /\ TaskIds(tasks') = TaskIds(tasks)
                  /\ Cardinality(tasks') = Cardinality(tasks)
                  /\ \A r \in tasks :
                        r.task_id # req[p].task_id => r \in tasks'
      ]_vars

\* C12 witness: two rows with different ids, the second just rewritten by
\* an update that answered 200.
C12_Witness ==
    \E p \in Clients :
        /\ pc[p] = "done" /\ req[p].op = "update" /\ req[p].task_id = 2
        /\ resp[p] = [status |-> 200, body |-> OkBody]
        /\ TaskIds(tasks) = {1, 2}
        /\ Cardinality(tasks) = 2

\* C13: every stored row's name is a name some request supplied, never
\* null: create stores the name of its body, and the write of an update
\* stores the name its body supplies or else the name the update read.
C13_NameNeverNull ==
    [][/\ \A r \in tasks' : r.name \in Names
       /\ \A p \in Clients :
            /\ RanOk(p, "create", "query") =>
                  \A new \in tasks' \ tasks : new.name = req[p].body.name
            /\ RanOk(p, "update", "write") =>
                  \A new \in RowsOf(tasks', req[p].task_id) :
                     new.name = IF Supplied(req[p].body.name)
                                THEN req[p].body.name[2]
                                ELSE original_task[p][1].name
      ]_vars

\* C13 witness: an update that supplied no name answered 200 while another
\* update of the same id is between its read and its write, and the row
\* has a name.
C13_Witness ==
    \E p, q \in Clients : \E r \in tasks :
        /\ pc[p] = "done" /\ req[p].op = "update" /\ req[p].task_id = r.task_id
        /\ req[p].body.name = Absent
        /\ resp[p] = [status |-> 200, body |-> OkBody]
        /\ pc[q] = "acquire2" /\ req[q].task_id = r.task_id
        /\ r.name \in Names

\* The row update p's write stores: the merge of its body into the row it
\* read.
MergedRow(p) ==
    [task_id |-> req[p].task_id,
     name |-> IF Supplied(req[p].body.name)
              THEN req[p].body.name[2] ELSE original_task[p][1].name,
     priority |-> IF Supplied(req[p].body.priority)
                  THEN <<req[p].body.priority[2]>>
                  ELSE original_task[p][1].priority]

\* C17 as stated: whenever the write of an update succeeds (the update
\* answers 200 {success: true}), a row with its task_id is in the table
\* right after the write and holds the merged name and priority.
C17_UpdateOkMeansRowWritten ==
    [][\A p \in Clients :
        RanOk(p, "update", "write") =>
           /\ resp'[p] = [status |-> 200, body |-> OkBody]
           /\ MergedRow(p) \in tasks'
      ]_vars

\* C17 amended: the write of an update answers 200 {success: true} in
\* both cases: if a row with its task_id is in the table at the write, the
\* row holds the merged name and priority right after it; if a delete
\* removed the row between the update's read and its write, the UPDATE
\* matches no row, the table stays as it was and no row is created.
C17_UpdateWritesIfRowStillThere ==
    [][\A p \in Clients :
        RanOk(p, "update", "write") =>
           /\ resp'[p] = [status |-> 200, body |-> OkBody]
           /\ RowsOf(tasks, req[p].task_id) # {} =>
                 RowsOf(tasks', req[p].task_id) = {MergedRow(p)}
           /\ RowsOf(tasks, req[p].task_id) = {} => tasks' = tasks
      ]_vars

\* C17 witness: an update holds the connection for its write, and a
\* delete of the same id has answered 200 since the update's read: the row
\* is gone.
C17_Witness ==
    \E p, q \in Clients :
        /\ pc[p] = "write" /\ req[p].op = "update"
        /\ pc[q] = "done" /\ req[q].op = "delete"
        /\ req[q].task_id = req[p].task_id
        /\ resp[q] = [status |-> 200, body |-> OkBody]
        /\ original_task[p] # << >>
        /\ RowsOf(tasks, req[p].task_id) = {}

\* C18: the set of task_ids in the table changes only in the insert of a
\* create, which adds exactly one id no row had, and in a delete, which
\* removes at most the id it addresses; get and list leave the table as it
\* was; the read and the write of an update leave the set of ids as it was,
\* also when the row was deleted between the two.
C18_IdsChangeOnlyByCreateDelete ==
    [][/\ \A p \in Clients :
            /\ RanOk(p, "create", "query") =>
                  /\ TaskIds(tasks) \subseteq TaskIds(tasks')
                  /\ Cardinality(TaskIds(tasks') \ TaskIds(tasks)) = 1
            /\ RanOk(p, "delete", "query") =>
                  /\ TaskIds(tasks') \subseteq TaskIds(tasks)
                  /\ TaskIds(tasks) \ TaskIds(tasks') \subseteq {req[p].task_id}
            /\ (RanOk(p, "get", "query") \/ RanOk(p, "list", "query")
                  \/ RanOk(p, "update", "query")) => tasks' = tasks
            /\ RanOk(p, "update", "write") => TaskIds(tasks') = TaskIds(tasks)
       /\ TaskIds(tasks') # TaskIds(tasks) =>
             \E p \in Clients :
                RanOk(p, "create", "query") \/ RanOk(p, "delete", "query")
      ]_vars

\* C18 witness: an update and a delete of the same id, which had been
\* handed out, both answered 200; no row has the id and another row is in
\* the table.
C18_Witness ==
    \E p, q \in Clients :
        /\ pc[p] = "done" /\ req[p].op = "update"
        /\ pc[q] = "done" /\ req[q].op = "delete"
        /\ req[q].task_id = req[p].task_id
        /\ req[p].task_id < task_id_seq
        /\ resp[p] = [status |-> 200, body |-> OkBody]
        /\ resp[q] = [status |-> 200, body |-> OkBody]
        /\ RowsOf(tasks, req[p].task_id) = {}

\* The connections all requests hold together.
RECURSIVE HeldBy(_)
HeldBy(S) ==
    IF S = {} THEN 0
    ELSE LET p == CHOOSE x \in S : TRUE IN held[p] + HeldBy(S \ {p})

InFlight(p) == pc[p] \in {"acquire", "query", "acquire2", "write"}

C15_ReleasedOnEveryExit ==
    /\ \A p \in Clients : pc[p] \in {"idle", "done"} => held[p] = 0
    /\ checkedOut = HeldBy(Clients)
    /\ (\A p \in Clients : ~InFlight(p)) => checkedOut = 0

\* C15 witness: an update has ended with its early 404 and another request
\* with the 500 of a failed query; both had taken a connection, no request
\* is in flight and no connection is checked out.
C15_Witness ==
    \E p, q \in Clients :
        /\ pc[p] = "done" /\ req[p].op = "update"
        /\ resp[p] = build_not_found_error(req[p].task_id)
        /\ acquired[p] = 1
        /\ pc[q] = "done" /\ resp[q] = map_pg_error(DbError)
        /\ acquired[q] >= 1
        /\ checkedOut = 0

\* C16, with the pool's max_connections (16 in main) scaled to PoolSize:
\* the connections checked out never exceed PoolSize; a connection is
\* handed out only while fewer than PoolSize are out; a request that needs
\* one while all are out holds none and stays where it is until one is
\* free or its acquisition times out, and a timed-out acquisition ends the
\* request with a 500 without taking a connection.
C16_PoolNeverExceedsMax ==
    [][/\ checkedOut <= PoolSize /\ checkedOut' <= PoolSize
       /\ \A p \in Clients :
            /\ acquired'[p] > acquired[p] =>
                  /\ checkedOut < PoolSize
                  /\ checkedOut' = checkedOut + 1
            /\ (pc[p] \in {"acquire", "acquire2"} /\ checkedOut >= PoolSize) =>
                  /\ held[p] = 0
                  /\ acquired'[p] = acquired[p]
                  /\ \/ pc'[p] = pc[p]
                     \/ /\ pc'[p] = "done"
                        /\ resp'[p] = map_pg_error(PoolTimedOut)
                        /\ resp'[p].status = 500
                        /\ checkedOut' = checkedOut
      ]_vars

\* C16 witness: every connection of the pool is out and a request whose
\* acquisition found none has ended with the 500 of the timeout.
C16_Witness ==
    \E p, q \in Clients :
        /\ checkedOut = PoolSize
        /\ held[q] = 1
        /\ pc[p] = "done"
        /\ resp[p] = map_pg_error(PoolTimedOut)
        /\ held[p] = 0

\* C19: under fair scheduling every request in flight eventually has its
\* response, whose status is 200, 404 or 500; a request has no response
\* before that and its response, once produced, stays as it is until it
\* leaves: one response per request. No request waits for a connection
\* while it holds one.
C19_EveryRequestAnswered ==
    /\ [](\A p \in Clients :
            /\ pc[p] \in {"acquire", "acquire2"} => held[p] = 0
            /\ InFlight(p) => resp[p] = NoResp
            /\ pc[p] = "done" => resp[p].status \in {200, 404, 500})
    /\ [][\A p \in Clients :
            pc[p] = "done" => (resp'[p] = resp[p] \/ pc'[p] = "idle")]_vars
    /\ \A p \in Clients : InFlight(p) ~> (pc[p] = "done")

\* C19 witness: an update whose write found the pool's connections all
\* taken by other requests has ended with the 500 of the timeout; it held
\* no connection while it waited.
C19_Witness ==
    \E p, q \in Clients :
        /\ pc[p] = "done" /\ req[p].op = "update"
        /\ resp[p] = map_pg_error(PoolTimedOut)
        /\ acquired[p] = 1 /\ held[p] = 0
        /\ held[q] = 1 /\ checkedOut = PoolSize

====
